---- MODULE Spec2Model ----
(***************************************************************************)
(* Model of CBS_printer_discrepency_finder.py: the two CSV passes          *)
(* (find_duplicate_ips_in_csv, load_csv_as_dict), the cross-file           *)
(* comparison (compare_csvs) and the main program that prints the six      *)
(* report sections.                                                        *)
(*                                                                         *)
(* Text values are sequences of one-character strings, so that str.strip   *)
(* and str.upper are computed character by character.  A Python dict is a  *)
(* sequence of entries in insertion order; a Python set is a set.  A CSV   *)
(* file on disk is what csv.DictReader makes of it: whether it can be      *)
(* opened, and its data rows, each a function from the header's column     *)
(* names to the raw text of the cell.                                      *)
(***************************************************************************)
EXTENDS Integers, Sequences, FiniteSets, TLC

VARIABLES
  file1,                 \* contents of the CSV named by file1 (line 3)
  file2,                 \* contents of the CSV named by file2 (line 5)
  pc,                    \* position of the main program
  cbs_duplicates_dict,   \* line 124
  poco_duplicates_dict,  \* line 125
  cbs_loaded,            \* (cbs_dict, cbs_set) of compare_csvs, line 79
  poco_loaded,           \* (poco_dict, poco_set) of compare_csvs, line 80
  compared,              \* the 4-tuple returned by compare_csvs, line 128
  stdout,                \* the report sections printed so far
  exc                    \* the uncaught exception that ended the run, if any

vars == <<file1, file2, pc, cbs_duplicates_dict, poco_duplicates_dict,
          cbs_loaded, poco_loaded, compared, stdout, exc>>

----------------------------------------------------------------------------
(* Bounds of the model *)

\* longest source (data rows) of the file a single-source claim is about
MaxRows == 4
\* longest source of each file when both files vary together
MaxRowsPair == 2

----------------------------------------------------------------------------
(* Text *)

COL_IP == "IP Address"
COL_TAG == "ID Tag"
COL_SERIAL == "Serial Number"
Columns == {COL_IP, COL_TAG, COL_SERIAL}

Whitespace == {" ", "\t"}

RECURSIVE lstrip(_)
lstrip(s) ==
  IF s # <<>> /\ Head(s) \in Whitespace THEN lstrip(Tail(s)) ELSE s

RECURSIVE rstrip(_)
rstrip(s) ==
  IF s # <<>> /\ s[Len(s)] \in Whitespace
    THEN rstrip(SubSeq(s, 1, Len(s) - 1))
    ELSE s

\* str.strip(): leading and trailing whitespace removed
strip(s) == rstrip(lstrip(s))

upperChar(c) ==
  CASE c = "a" -> "A"
    [] c = "b" -> "B"
    [] c = "s" -> "S"
    [] c = "t" -> "T"
    [] OTHER -> c

\* str.upper()
upper(s) == [i \in 1..Len(s) |-> upperChar(s[i])]

\* code point of a character, for sorted()
ord(c) ==
  CASE c = "\t" -> 9
    [] c = " " -> 32
    [] c = "1" -> 49
    [] c = "2" -> 50
    [] c = "3" -> 51
    [] c = "A" -> 65
    [] c = "B" -> 66
    [] c = "S" -> 83
    [] c = "T" -> 84
    [] c = "a" -> 97
    [] c = "b" -> 98
    [] c = "s" -> 115
    [] c = "t" -> 116

\* s < t for Python str: lexicographic by code point
RECURSIVE strLess(_, _)
strLess(s, t) ==
  IF t = <<>> THEN FALSE
  ELSE IF s = <<>> THEN TRUE
  ELSE IF ord(Head(s)) # ord(Head(t)) THEN ord(Head(s)) < ord(Head(t))
  ELSE strLess(Tail(s), Tail(t))

\* sorted(S) of a set of str
RECURSIVE sorted(_)
sorted(S) ==
  IF S = {} THEN <<>>
  ELSE LET m == CHOOSE x \in S : \A y \in S \ {x} : strLess(x, y)
       IN <<m>> \o sorted(S \ {m})

----------------------------------------------------------------------------
(* Results of a call: a returned value or a raised exception *)

Return(v) == [raised |-> "", value |-> v]
Raise(e) == [raised |-> e]

\* a name of the main program before and after its assignment
Unbound == [bound |-> FALSE]
Bind(v) == [bound |-> TRUE, val |-> v]

----------------------------------------------------------------------------
(* find_duplicate_ips_in_csv *)

ENUMERATE_START == 2

\* enumerate(reader, start=2): the number given to the i-th row read
row_numberBug(i) == i
row_number(i) == ENUMERATE_START + (i - 1)

\* `if not ip: continue`
skip_rowBug(ip) == FALSE
skip_row(ip) == ip = <<>>

dictKeys(d) == {d[j].key : j \in DOMAIN d}
dictIndex(d, k) == CHOOSE j \in DOMAIN d : d[j].key = k
dictGet(d, k) == d[dictIndex(d, k)]

\* ip_to_rows.setdefault(ip, []).append(row_number)
setdefault_appendBug(d, ip, n) ==
  IF ip \in dictKeys(d)
    THEN [d EXCEPT ![dictIndex(d, ip)].rows = <<n>>]
    ELSE Append(d, [key |-> ip, rows |-> <<n>>])
setdefault_append(d, ip, n) ==
  IF ip \in dictKeys(d)
    THEN [d EXCEPT ![dictIndex(d, ip)].rows = Append(@, n)]
    ELSE Append(d, [key |-> ip, rows |-> <<n>>])

\* the loop of lines 16-21 from the i-th row on
RECURSIVE dup_loop(_, _, _)
dup_loop(rows, i, ip_to_rows) ==
  IF i > Len(rows) THEN Return(ip_to_rows)
  ELSE IF COL_IP \notin DOMAIN rows[i] THEN Raise("KeyError")
  ELSE LET ip == strip(rows[i][COL_IP])
       IN IF skip_row(ip)
            THEN dup_loop(rows, i + 1, ip_to_rows)
            ELSE dup_loop(rows, i + 1,
                          setdefault_append(ip_to_rows, ip, row_number(i)))

\* line 24: `if len(rows) > 1`
more_than_onceBug(e) == Len(e.rows) >= 1
more_than_once(e) == Len(e.rows) > 1

find_duplicate_ips_in_csv(file) ==
  IF ~file.readable THEN Raise("OSError")
  ELSE LET r == dup_loop(file.rows, 1, <<>>)
       IN IF r.raised # "" THEN r
          ELSE Return(SelectSeq(r.value, more_than_once))

----------------------------------------------------------------------------
(* load_csv_as_dict *)

\* lines 54-58: the entry stored the first time an ip is seen
new_entry(ip, n, id_tag_upper, serial_upper) ==
  [key |-> ip, rows |-> <<n>>, id_tag |-> id_tag_upper,
   serial_number |-> serial_upper]

\* lines 61-64: the entry of an ip seen again
seen_againBug(e, n, id_tag_upper, serial_upper) ==
  [e EXCEPT !.rows = Append(@, n)]
seen_again(e, n, id_tag_upper, serial_upper) ==
  [e EXCEPT !.rows = Append(@, n),
            !.id_tag = id_tag_upper,
            !.serial_number = serial_upper]

\* line 66: ip_set.add(ip)
ip_set_add(ip_set, ip) == ip_set \cup {ip}

\* the loop of lines 43-66 from the i-th row on
RECURSIVE load_loop(_, _, _, _)
load_loop(rows, i, ip_dict, ip_set) ==
  IF i > Len(rows) THEN Return([ip_dict |-> ip_dict, ip_set |-> ip_set])
  ELSE IF COL_IP \notin DOMAIN rows[i] THEN Raise("KeyError")
  ELSE LET ip == strip(rows[i][COL_IP])
       IN IF skip_row(ip) THEN load_loop(rows, i + 1, ip_dict, ip_set)
          ELSE IF COL_TAG \notin DOMAIN rows[i] THEN Raise("KeyError")
          ELSE IF COL_SERIAL \notin DOMAIN rows[i] THEN Raise("KeyError")
          ELSE LET id_tag_upper == upper(strip(rows[i][COL_TAG]))
                   serial_upper == upper(strip(rows[i][COL_SERIAL]))
                   d == IF ip \notin dictKeys(ip_dict)
                          THEN Append(ip_dict,
                                 new_entry(ip, row_number(i),
                                           id_tag_upper, serial_upper))
                          ELSE [ip_dict EXCEPT ![dictIndex(ip_dict, ip)] =
                                 seen_again(@, row_number(i),
                                            id_tag_upper, serial_upper)]
               IN load_loop(rows, i + 1, d, ip_set_add(ip_set, ip))

load_csv_as_dict(file) ==
  IF ~file.readable THEN Raise("OSError")
  ELSE load_loop(file.rows, 1, <<>>, {})

----------------------------------------------------------------------------
(* compare_csvs *)

\* lines 83-84: set difference
only_inBug(x, y) == x
only_in(x, y) == x \ y

\* lines 98-99: the test of an exact match
same_deviceBug(cbs_info, poco_info) ==
  cbs_info.id_tag = poco_info.id_tag
same_device(cbs_info, poco_info) ==
  /\ cbs_info.id_tag = poco_info.id_tag
  /\ cbs_info.serial_number = poco_info.serial_number

\* lines 101-107
exact_record(ip, cbs_info, poco_info) ==
  [ip_address |-> ip,
   cbs_master_rows |-> cbs_info.rows,
   poco_sheet_rows |-> poco_info.rows,
   id_tag |-> cbs_info.id_tag,
   serial_number |-> cbs_info.serial_number]

\* lines 110-118
mismatch_record(ip, cbs_info, poco_info) ==
  [ip_address |-> ip,
   cbs_master_rows |-> cbs_info.rows,
   poco_sheet_rows |-> poco_info.rows,
   file1_id_tag |-> cbs_info.id_tag,
   file1_serial |-> cbs_info.serial_number,
   file2_id_tag |-> poco_info.id_tag,
   file2_serial |-> poco_info.serial_number]

\* lines 94-118: the body of the loop over common_ips
classifyBug(acc, ip, cbs_info, poco_info) ==
  LET a == IF same_device(cbs_info, poco_info)
             THEN [acc EXCEPT !.duplicates_across =
                     Append(@, exact_record(ip, cbs_info, poco_info))]
             ELSE acc
  IN [a EXCEPT !.mismatches =
        Append(@, mismatch_record(ip, cbs_info, poco_info))]
classify(acc, ip, cbs_info, poco_info) ==
  IF same_device(cbs_info, poco_info)
    THEN [acc EXCEPT !.duplicates_across =
            Append(@, exact_record(ip, cbs_info, poco_info))]
    ELSE [acc EXCEPT !.mismatches =
            Append(@, mismatch_record(ip, cbs_info, poco_info))]

\* lines 92-118: the loop, visiting common_ips in the order `order`
RECURSIVE compare_loop(_, _, _, _, _)
compare_loop(order, i, cbs_dict, poco_dict, acc) ==
  IF i > Len(order) THEN acc
  ELSE compare_loop(order, i + 1, cbs_dict, poco_dict,
                    classify(acc, order[i], dictGet(cbs_dict, order[i]),
                             dictGet(poco_dict, order[i])))

\* the orders in which a for loop may visit the set S
RECURSIVE iteration_orders(_)
iteration_orders(S) ==
  IF S = {} THEN {<<>>}
  ELSE UNION {{<<x>> \o o : o \in iteration_orders(S \ {x})} : x \in S}

\* lines 83-120, given the two loaded files and the iteration order
compare_rest(cbs, poco, order) ==
  LET acc == compare_loop(order, 1, cbs.ip_dict, poco.ip_dict,
                          [duplicates_across |-> <<>>, mismatches |-> <<>>])
  IN [duplicates_across |-> acc.duplicates_across,
      mismatches |-> acc.mismatches,
      cbs_only_ips |-> only_in(cbs.ip_set, poco.ip_set),
      poco_only_ips |-> only_in(poco.ip_set, cbs.ip_set)]

----------------------------------------------------------------------------
(* The main program, lines 122-197 *)

SEC_CBS_DUP == "DUPLICATE IPs WITHIN CBS MASTER"
SEC_POCO_DUP == "DUPLICATE IPs WITHIN POCO SHEET"
SEC_CBS_ONLY == "IPs IN CBS MASTER BUT NOT IN POCO SHEET"
SEC_POCO_ONLY == "IPs IN POCO SHEET BUT NOT IN CBS MASTER"
SEC_EXACT == "CROSS-FILE EXACT MATCHES"
SEC_CONFLICT == "CROSS-FILE POTENTIAL CONFLICTS"

\* the statement that follows statement p when p raises nothing
next_statementBug(p) ==
  CASE p = "dup_cbs" -> "print_cbs_dup"
    [] p = "print_cbs_dup" -> "dup_poco"
    [] p = "dup_poco" -> "load_cbs"
    [] p = "load_cbs" -> "load_poco"
    [] p = "load_poco" -> "compare"
    [] p = "compare" -> "print_poco_dup"
    [] p = "print_poco_dup" -> "print_cbs_only"
    [] p = "print_cbs_only" -> "print_poco_only"
    [] p = "print_poco_only" -> "print_exact"
    [] p = "print_exact" -> "print_conflict"
    [] p = "print_conflict" -> "done"
next_statement(p) ==
  CASE p = "dup_cbs" -> "dup_poco"
    [] p = "dup_poco" -> "load_cbs"
    [] p = "load_cbs" -> "load_poco"
    [] p = "load_poco" -> "compare"
    [] p = "compare" -> "print_cbs_dup"
    [] p = "print_cbs_dup" -> "print_poco_dup"
    [] p = "print_poco_dup" -> "print_cbs_only"
    [] p = "print_cbs_only" -> "print_poco_only"
    [] p = "print_poco_only" -> "print_exact"
    [] p = "print_exact" -> "print_conflict"
    [] p = "print_conflict" -> "done"

\* an exception nothing catches ends the run with a traceback
uncaught(e) ==
  /\ pc' = "aborted"
  /\ exc' = e

\* one report section: its header line and the lines under it; with no
\* items the single "No ..." line is printed instead
section(title, items) ==
  [title |-> title, items |-> items, none |-> items = <<>>]

\* line 124
FindCbsDuplicates ==
  /\ pc = "dup_cbs"
  /\ LET r == find_duplicate_ips_in_csv(file1)
     IN IF r.raised # ""
          THEN uncaught(r.raised) /\ UNCHANGED cbs_duplicates_dict
          ELSE /\ cbs_duplicates_dict' = Bind(r.value)
               /\ pc' = next_statement(pc)
               /\ UNCHANGED exc
  /\ UNCHANGED <<file1, file2, poco_duplicates_dict, cbs_loaded, poco_loaded,
                 compared, stdout>>

\* line 125
FindPocoDuplicates ==
  /\ pc = "dup_poco"
  /\ LET r == find_duplicate_ips_in_csv(file2)
     IN IF r.raised # ""
          THEN uncaught(r.raised) /\ UNCHANGED poco_duplicates_dict
          ELSE /\ poco_duplicates_dict' = Bind(r.value)
               /\ pc' = next_statement(pc)
               /\ UNCHANGED exc
  /\ UNCHANGED <<file1, file2, cbs_duplicates_dict, cbs_loaded, poco_loaded,
                 compared, stdout>>

\* line 128 entering compare_csvs, line 79
LoadCbs ==
  /\ pc = "load_cbs"
  /\ LET r == load_csv_as_dict(file1)
     IN IF r.raised # ""
          THEN uncaught(r.raised) /\ UNCHANGED cbs_loaded
          ELSE /\ cbs_loaded' = Bind(r.value)
               /\ pc' = next_statement(pc)
               /\ UNCHANGED exc
  /\ UNCHANGED <<file1, file2, cbs_duplicates_dict, poco_duplicates_dict,
                 poco_loaded, compared, stdout>>

\* line 80
LoadPoco ==
  /\ pc = "load_poco"
  /\ LET r == load_csv_as_dict(file2)
     IN IF r.raised # ""
          THEN uncaught(r.raised) /\ UNCHANGED poco_loaded
          ELSE /\ poco_loaded' = Bind(r.value)
               /\ pc' = next_statement(pc)
               /\ UNCHANGED exc
  /\ UNCHANGED <<file1, file2, cbs_duplicates_dict, poco_duplicates_dict,
                 cbs_loaded, compared, stdout>>

\* lines 83-120 and the assignment of line 128; the order in which the
\* loop of line 92 visits the set common_ips is not determined
Compare ==
  /\ pc = "compare"
  /\ LET common_ips == cbs_loaded.val.ip_set \cap poco_loaded.val.ip_set
     IN \E order \in iteration_orders(common_ips) :
          compared' = Bind(compare_rest(cbs_loaded.val, poco_loaded.val,
                                        order))
  /\ pc' = next_statement(pc)
  /\ UNCHANGED <<file1, file2, cbs_duplicates_dict, poco_duplicates_dict,
                 cbs_loaded, poco_loaded, stdout, exc>>

print_section(p, title, items) ==
  /\ pc = p
  /\ stdout' = Append(stdout, section(title, items))
  /\ pc' = next_statement(pc)
  /\ UNCHANGED <<file1, file2, cbs_duplicates_dict, poco_duplicates_dict,
                 cbs_loaded, poco_loaded, compared, exc>>

\* lines 131-137
PrintCbsDuplicates ==
  print_section("print_cbs_dup", SEC_CBS_DUP, cbs_duplicates_dict.val)

\* lines 140-146
PrintPocoDuplicates ==
  print_section("print_poco_dup", SEC_POCO_DUP, poco_duplicates_dict.val)

\* lines 149-154
PrintCbsOnly ==
  print_section("print_cbs_only", SEC_CBS_ONLY,
                sorted(compared.val.cbs_only_ips))

\* lines 156-161
PrintPocoOnly ==
  print_section("print_poco_only", SEC_POCO_ONLY,
                sorted(compared.val.poco_only_ips))

\* lines 164-179
PrintExactMatches ==
  print_section("print_exact", SEC_EXACT, compared.val.duplicates_across)

\* lines 182-197
PrintConflicts ==
  print_section("print_conflict", SEC_CONFLICT, compared.val.mismatches)

Next ==
  \/ FindCbsDuplicates
  \/ FindPocoDuplicates
  \/ LoadCbs
  \/ LoadPoco
  \/ Compare
  \/ PrintCbsDuplicates
  \/ PrintPocoDuplicates
  \/ PrintCbsOnly
  \/ PrintPocoOnly
  \/ PrintExactMatches
  \/ PrintConflicts

----------------------------------------------------------------------------
(* The input files *)

Row(ip, id_tag, serial) ==
  [c \in Columns |-> CASE c = COL_IP -> ip
                       [] c = COL_TAG -> id_tag
                       [] c = COL_SERIAL -> serial]

\* key needing strip, lower-case tag
ROW_1_a_s == Row(<<" ", "1">>, <<"a">>, <<"s">>)
\* the same device as ROW_1_a_s once normalised
ROW_1_A_s == Row(<<"1">>, <<"A", " ">>, <<"s">>)
\* the same key and tag with another serial
ROW_1_A_t == Row(<<"1">>, <<"A">>, <<"t">>)
\* a key that is blank once stripped
ROW_blank == Row(<<" ">>, <<"a">>, <<"s">>)
\* blank tag and serial
ROW_2_blank == Row(<<"2">>, <<>>, <<" ">>)
\* the same key and (blank) serial with a tag
ROW_2_b == Row(<<"2", " ">>, <<"b">>, <<>>)

\* a third key
ROW_3_b == Row(<<"3">>, <<"b">>, <<"s">>)

RowPool ==
  {ROW_1_a_s, ROW_1_A_s, ROW_1_A_t, ROW_blank, ROW_2_blank, ROW_2_b, ROW_3_b}

SeqsUpTo(S, n) == UNION {[1..m -> S] : m \in 0..n}

\* what csv.DictReader yields for rows under a header: each row a dict
\* keyed by the header's column names
csv_file(header, rows) ==
  [readable |-> TRUE,
   header |-> header,
   rows |-> [i \in 1..Len(rows) |-> [c \in header |-> rows[i][c]]]]

\* files with all three columns and at most n data rows
GoodFiles(n) == {csv_file(Columns, rows) : rows \in SeqsUpTo(RowPool, n)}

\* a file that cannot be opened
Unreadable == [readable |-> FALSE, header |-> {}, rows |-> <<>>]

\* files whose header lacks one of the three columns
ShortSources ==
  {<<>>, <<ROW_blank>>, <<ROW_1_a_s>>, <<ROW_blank, ROW_1_a_s>>}
MissingColumnFiles ==
  {csv_file(Columns \ {c}, rows) : c \in Columns, rows \in ShortSources}

FaultyFiles == {Unreadable} \cup MissingColumnFiles

\* the other file of a run that is about one file
OtherFiles ==
  {csv_file(Columns, <<ROW_1_a_s>>),
   csv_file(Columns, <<ROW_2_b, ROW_1_A_t>>),
   Unreadable}

Start ==
  /\ pc = "dup_cbs"
  /\ cbs_duplicates_dict = Unbound
  /\ poco_duplicates_dict = Unbound
  /\ cbs_loaded = Unbound
  /\ poco_loaded = Unbound
  /\ compared = Unbound
  /\ stdout = <<>>
  /\ exc = ""

\* both files vary together
Init ==
  /\ file1 \in GoodFiles(MaxRowsPair) \cup FaultyFiles
  /\ file2 \in GoodFiles(MaxRowsPair) \cup FaultyFiles
  /\ Start

Spec == Init /\ [][Next]_vars

\* file1 varies over longer sources
InitSource ==
  /\ file1 \in GoodFiles(MaxRows) \cup FaultyFiles
  /\ file2 \in OtherFiles
  /\ Start

SpecSource == InitSource /\ [][Next]_vars

----------------------------------------------------------------------------
(* The vocabulary of the claims, read off the input files *)

\* the stripped key of the i-th data row
key_at(file, i) == strip(file.rows[i][COL_IP])

\* the data rows whose key is not blank
NonBlankRows(file) == {i \in DOMAIN file.rows : key_at(file, i) # <<>>}
BlankRows(file) == DOMAIN file.rows \ NonBlankRows(file)

\* keys(S): the non-blank stripped keys of a source
KeysOf(file) == {key_at(file, i) : i \in NonBlankRows(file)}

\* the i-th data row is at position i + 1: the header is at position 1
RowsWith(file, k) == {i \in DOMAIN file.rows : key_at(file, i) = k}
PositionsOf(file, k) == {i + 1 : i \in RowsWith(file, k)}

\* the ascending list of a set of numbers
RECURSIVE Ascending(_)
Ascending(S) ==
  IF S = {} THEN <<>>
  ELSE LET least == CHOOSE x \in S : \A y \in S : x <= y
       IN <<least>> \o Ascending(S \ {least})

\* the last data row carrying key k
LastRowWith(file, k) ==
  file.rows[CHOOSE i \in RowsWith(file, k) : \A j \in RowsWith(file, k) : j <= i]
FirstRowWith(file, k) ==
  file.rows[CHOOSE i \in RowsWith(file, k) : \A j \in RowsWith(file, k) : i <= j]

\* the stored form of a row's tag and serial: stripped and upper-cased
StoredTag(row) == upper(strip(row[COL_TAG]))
StoredSerial(row) == upper(strip(row[COL_SERIAL]))
SameStored(r1, r2) ==
  /\ StoredTag(r1) = StoredTag(r2)
  /\ StoredSerial(r1) = StoredSerial(r2)

\* a dict holds each key once
UniqueKeys(d) == \A i, j \in DOMAIN d : d[i].key = d[j].key => i = j

RECURSIVE TotalPositions(_)
TotalPositions(d) ==
  IF d = <<>> THEN 0 ELSE Len(Head(d).rows) + TotalPositions(Tail(d))

RecordsOf(list, k) == {j \in DOMAIN list : list[j].ip_address = k}
RecordKeys(list) == {list[j].ip_address : j \in DOMAIN list}

----------------------------------------------------------------------------
(* C1 *)

DuplicateContract(file, dd) ==
  dd.bound =>
    LET d == dd.val
    IN /\ UniqueKeys(d)
       /\ dictKeys(d) =
            {k \in KeysOf(file) : Cardinality(PositionsOf(file, k)) >= 2}
       /\ \A j \in DOMAIN d : d[j].rows = Ascending(PositionsOf(file, d[j].key))
       /\ (file.rows = <<>> => d = <<>>)

\* C1: find_duplicate_ips_in_csv returns a mapping whose keys are exactly the
\* non-blank stripped keys carried by at least 2 rows, each with the full
\* ascending list of the positions of its rows, the i-th data row (blank-key
\* rows counted) being at position i + 1; no rows give the empty mapping.
C1_DuplicateMapping ==
  /\ DuplicateContract(file1, cbs_duplicates_dict)
  /\ DuplicateContract(file2, poco_duplicates_dict)

\* a blank-key row between two rows of one key: positions 2 and 4
C1_Witness ==
  /\ cbs_duplicates_dict.bound
  /\ Len(file1.rows) = 3
  /\ key_at(file1, 2) = <<>>
  /\ \E j \in DOMAIN cbs_duplicates_dict.val :
       cbs_duplicates_dict.val[j].rows = <<2, 4>>

----------------------------------------------------------------------------
(* C7 *)

PositionCount(file, dd) ==
  dd.bound =>
    /\ TotalPositions(dd.val) <= Cardinality(NonBlankRows(file))
    /\ TotalPositions(dd.val) = Cardinality(NonBlankRows(file)) =>
         \A k \in KeysOf(file) : Cardinality(RowsWith(file, k)) >= 2

\* C7: the positions reported by the duplicate detector number at most the
\* non-blank-key rows of the source, and exactly that many only if every
\* non-blank key occurs in at least 2 rows.
C7_PositionCount ==
  /\ PositionCount(file1, cbs_duplicates_dict)
  /\ PositionCount(file2, poco_duplicates_dict)

\* a duplicated key beside a key that occurs once: fewer positions than rows
C7_Witness ==
  /\ cbs_duplicates_dict.bound
  /\ TotalPositions(cbs_duplicates_dict.val) = 2
  /\ Cardinality(NonBlankRows(file1)) = 3

----------------------------------------------------------------------------
(* C5 *)

IndexContract(file, ld) ==
  ld.bound =>
    LET d == ld.val.ip_dict
    IN /\ UniqueKeys(d)
       /\ dictKeys(d) = KeysOf(file)
       /\ \A k \in KeysOf(file) :
            LET e == dictGet(d, k)
                last == LastRowWith(file, k)
            IN /\ e.rows = Ascending(PositionsOf(file, k))
               /\ e.id_tag = StoredTag(last)
               /\ e.serial_number = StoredSerial(last)

\* a key repeated in file1 is classified by its last row there
RepeatedKeyClassifiedByLast ==
  compared.bound =>
    \A k \in KeysOf(file1) \cap KeysOf(file2) :
      Cardinality(RowsWith(file1, k)) >= 2 =>
        (k \in RecordKeys(compared.val.duplicates_across)
           <=> SameStored(LastRowWith(file1, k), LastRowWith(file2, k)))

\* C5: the KeyIndex built by load_csv_as_dict holds, for every non-blank key,
\* the ascending list of the positions of all its rows and the tag and serial
\* of the last of them; so a key repeated inside A is classified against B by
\* its last occurrence in A.
C5_LastWriteWins ==
  /\ IndexContract(file1, cbs_loaded)
  /\ IndexContract(file2, poco_loaded)
  /\ RepeatedKeyClassifiedByLast

\* a key whose first row in file1 agrees with file2 and whose last row does
\* not, reported as a conflict
C5_Witness ==
  /\ compared.bound
  /\ \E k \in KeysOf(file1) \cap KeysOf(file2) :
       /\ Cardinality(RowsWith(file1, k)) >= 2
       /\ SameStored(FirstRowWith(file1, k), LastRowWith(file2, k))
       /\ ~SameStored(LastRowWith(file1, k), LastRowWith(file2, k))
       /\ k \in RecordKeys(compared.val.mismatches)

----------------------------------------------------------------------------
(* C10 *)

PassesAgree(dd, ld) ==
  (dd.bound /\ ld.bound) =>
    LET d == dd.val
        ip_dict == ld.val.ip_dict
    IN /\ UniqueKeys(d)
       /\ UniqueKeys(ip_dict)
       /\ dictKeys(d) =
            {k \in dictKeys(ip_dict) : Len(dictGet(ip_dict, k).rows) >= 2}
       /\ \A k \in dictKeys(d) : dictGet(d, k).rows = dictGet(ip_dict, k).rows
       /\ ld.val.ip_set = dictKeys(ip_dict)

\* C10: on a source both passes accept, the mapping of
\* find_duplicate_ips_in_csv is the KeyIndex of load_csv_as_dict restricted to
\* the keys with at least 2 positions, with the same position lists, and the
\* key set of load_csv_as_dict is the domain of its KeyIndex.
C10_PassesAgree ==
  /\ PassesAgree(cbs_duplicates_dict, cbs_loaded)
  /\ PassesAgree(poco_duplicates_dict, poco_loaded)

\* both passes done on a source with a duplicated key and a single one
C10_Witness ==
  /\ cbs_loaded.bound
  /\ Len(cbs_duplicates_dict.val) = 1
  /\ Cardinality(cbs_loaded.val.ip_set) = 2
  /\ BlankRows(file1) # {}

----------------------------------------------------------------------------
(* C2 *)

\* C2: onlyA and onlyB are disjoint, onlyA = keys(A) \ keys(B),
\* onlyB = keys(B) \ keys(A), and with keys(A) \cap keys(B) they cover exactly
\* keys(A) \cup keys(B); when A and B share no key the exact-match and
\* conflict collections are empty and onlyA = keys(A), onlyB = keys(B).
C2_Partition ==
  compared.bound =>
    LET a == KeysOf(file1)
        b == KeysOf(file2)
        onlyA == compared.val.cbs_only_ips
        onlyB == compared.val.poco_only_ips
    IN /\ onlyA \cap onlyB = {}
       /\ onlyA = a \ b
       /\ onlyB = b \ a
       /\ onlyA \cap (a \cap b) = {}
       /\ onlyB \cap (a \cap b) = {}
       /\ onlyA \cup onlyB \cup (a \cap b) = a \cup b
       /\ (a \cap b = {}) =>
            /\ compared.val.duplicates_across = <<>>
            /\ compared.val.mismatches = <<>>
            /\ onlyA = a
            /\ onlyB = b

\* a key only in A, a key only in B and a key in both
C2_Witness ==
  /\ compared.bound
  /\ compared.val.cbs_only_ips # {}
  /\ compared.val.poco_only_ips # {}
  /\ KeysOf(file1) \cap KeysOf(file2) # {}

----------------------------------------------------------------------------
(* C3 *)

\* C3: every key of keys(A) \cap keys(B) has exactly one record, in exactly
\* one of the exact-match and conflict collections, and no other key has a
\* record in either.
C3_ExactlyOneRecord ==
  compared.bound =>
    LET exact == compared.val.duplicates_across
        conflict == compared.val.mismatches
        common == KeysOf(file1) \cap KeysOf(file2)
    IN /\ \A k \in common :
            Cardinality(RecordsOf(exact, k))
              + Cardinality(RecordsOf(conflict, k)) = 1
       /\ RecordKeys(exact) \cup RecordKeys(conflict) \subseteq common

\* one shared key reported as an exact match and another as a conflict
C3_Witness ==
  /\ compared.bound
  /\ compared.val.duplicates_across # <<>>
  /\ compared.val.mismatches # <<>>

----------------------------------------------------------------------------
(* C4 *)

----------------------------------------------------------------------------
(* C6 *)

\* what one file contributes to the outputs: its keys and position lists
NoBlankIn(file, keys, lists) ==
  LET blank == {i + 1 : i \in BlankRows(file)}
  IN /\ <<>> \notin keys
     /\ \A l \in lists : \A n \in DOMAIN l : l[n] \notin blank

DictLists(d) == {d[j].rows : j \in DOMAIN d}

\* C6: a row whose key is blank after stripping contributes nothing: the
\* empty key is no key of a duplicate mapping, KeyIndex, key set, onlyA,
\* onlyB or record, and the row's position is in no position list.
C6_BlankKeySkipped ==
  /\ cbs_duplicates_dict.bound =>
       NoBlankIn(file1, dictKeys(cbs_duplicates_dict.val),
                 DictLists(cbs_duplicates_dict.val))
  /\ poco_duplicates_dict.bound =>
       NoBlankIn(file2, dictKeys(poco_duplicates_dict.val),
                 DictLists(poco_duplicates_dict.val))
  /\ cbs_loaded.bound =>
       NoBlankIn(file1,
                 dictKeys(cbs_loaded.val.ip_dict) \cup cbs_loaded.val.ip_set,
                 DictLists(cbs_loaded.val.ip_dict))
  /\ poco_loaded.bound =>
       NoBlankIn(file2,
                 dictKeys(poco_loaded.val.ip_dict) \cup poco_loaded.val.ip_set,
                 DictLists(poco_loaded.val.ip_dict))
  /\ compared.bound =>
       LET exact == compared.val.duplicates_across
           conflict == compared.val.mismatches
       IN /\ NoBlankIn(file1,
                       compared.val.cbs_only_ips \cup RecordKeys(exact)
                         \cup RecordKeys(conflict),
                       {exact[j].cbs_master_rows : j \in DOMAIN exact}
                         \cup {conflict[j].cbs_master_rows :
                                 j \in DOMAIN conflict})
          /\ NoBlankIn(file2,
                       compared.val.poco_only_ips,
                       {exact[j].poco_sheet_rows : j \in DOMAIN exact}
                         \cup {conflict[j].poco_sheet_rows :
                                 j \in DOMAIN conflict})

\* both files hold a blank-key row beside a shared key, and the comparison
\* is done
C6_Witness ==
  /\ compared.bound
  /\ BlankRows(file1) # {}
  /\ BlankRows(file2) # {}
  /\ compared.val.duplicates_across # <<>>

----------------------------------------------------------------------------
(* C8 *)

MissingColumn(file) == file.readable /\ file.header # Columns

\* C8: if a required column is absent from the header of either file, the
\* run ends in a fatal error before any cross-file comparison is computed,
\* whatever rows the file holds.
C8_MissingColumnFatal ==
  (MissingColumn(file1) \/ MissingColumn(file2)) =>
    /\ ~compared.bound
    /\ pc # "done"

----------------------------------------------------------------------------
(* C9 *)

SectionOrder ==
  <<SEC_CBS_DUP, SEC_POCO_DUP, SEC_CBS_ONLY, SEC_POCO_ONLY, SEC_EXACT,
    SEC_CONFLICT>>

Terminated == pc \in {"done", "aborted"}

\* C9: a run that a fatal error ended has emitted no section; a section is
\* emitted only once both duplicate detections and the comparison have
\* succeeded, and the sections come in the order intra-A duplicates, intra-B
\* duplicates, A-only keys, B-only keys, exact matches, conflicts.
C9_AllOrNothing ==
  /\ (exc # "" \/ pc = "aborted") => (Terminated /\ stdout = <<>>)
  /\ stdout # <<>> =>
       /\ cbs_duplicates_dict.bound
       /\ poco_duplicates_dict.bound
       /\ compared.bound
  /\ Len(stdout) <= Len(SectionOrder)
  /\ \A n \in DOMAIN stdout : stdout[n].title = SectionOrder[n]
  /\ pc = "done" => Len(stdout) = Len(SectionOrder)

\* the second file fails at its indexing pass, after three loads succeeded
C9_Witness ==
  /\ exc = "KeyError"
  /\ cbs_duplicates_dict.bound
  /\ poco_duplicates_dict.bound
  /\ cbs_loaded.bound
  /\ stdout = <<>>

====
